---- MODULE Spec2Model ----
(***************************************************************************)
(* Model of polybot: the windowed market discovery of tool/gamma.py, the   *)
(* top-level run of main.py and the on-chain redemption pass of            *)
(* tool/redeem.py.                                                         *)
(*                                                                         *)
(* Two entry points are modelled, each with its own specification:         *)
(*   SpecRedeem  redeem_last_hours(cfg) called with a configuration object *)
(*               that carries the attributes the function reads;           *)
(*   SpecMain    main(), which loads the configuration, calls              *)
(*               redeem_last_hours(cfg, lookback_h) and then runs trading  *)
(*               discovery and order placement.                            *)
(*                                                                         *)
(* Python values are encoded so that TLC never compares values of          *)
(* different kinds: an absent or non-string field is a record with a flag, *)
(* an absent index is NoIndex.  A field read through a chain of aliases    *)
(* (m.get("a") or m.get("b")) is modelled as one field holding the chain's *)
(* result.                                                                 *)
(***************************************************************************)
EXTENDS Integers, Sequences, FiniteSets, TLC

VARIABLES
    entry,      \* "redeem" | "main": the function that was invoked
    pc,         \* control position of the run
    cfg,        \* the configuration object
    db,         \* the records the listing API holds for the query
    offset,     \* lister local: offset of the next page request
    out,        \* lister local: the list being built / returned
    requests,   \* log of the page requests made: <<[offset, kind]>>, with
                \* the queried window in the redemption pass
    bi,         \* _build_candidates: index of the next market of the loop
    cands,      \* list of RedeemCandidate
    buildLog,   \* per market of the loop: the balances then, the call's fate
    attempts,   \* log of the submission loop, one entry per iteration
    chain,      \* the chain: balances, mined tx count, pending txs
    rpc,        \* what the redemption pass found out about the RPC endpoint
    result,     \* "running" | "returned" | "raised" (how the call ended)
    exitStatus, \* main(): process exit status, NoStatus while running
    run,        \* number of the current run of the entry point
    lastTx,     \* the transaction of the latest submission attempt
    redeemedAtStart, \* tokens whose redemption was mined before this run began
    orders,     \* main(): log of the order-placement loop
    redeemCall  \* main(): how its call of redeem_last_hours went

vars == <<entry, pc, cfg, db, offset, out, requests, bi, cands, buildLog,
          attempts,
          chain, rpc, result, exitStatus, run, lastTx, redeemedAtStart,
          orders, redeemCall>>

-----------------------------------------------------------------------------
(* Bounds of the model *)

MaxListed == 2        \* records the listing API holds (redemption query)
MaxCfgMarkets == 2    \* largest cfg.max_markets of a redemption run
MaxRuns == 2          \* runs of redeem_last_hours against the same chain
MaxPages == 2         \* pages of GammaPageCap records the discovery query spans
MaxSlotTime == 2      \* latest slot-start instant of a discovery record

(* Program constants *)

RedeemPageCap == 200  \* limit = min(cfg.max_markets, 200)
GammaPageCap == 100   \* limit = min(100, cfg.max_markets)
RedeemParams == 1     \* def redeem_last_hours(cfg: Config)
MainCallArgs == 2     \* redeem_last_hours(cfg, lookback_h)
CidLen == 66          \* len(v) == 66
FallbackGas == 350000 \* tx["gas"] = 350_000
FallbackBaseFee == 500 \* base = 50_000_000_000 wei, in units of 10^8 wei

NoIndex == 0 - 1      \* Python None where an index is expected
NoStatus == 0 - 1     \* no exit status yet

Min(a, b) == IF a < b THEN a ELSE b

Range(s) == {s[i] : i \in DOMAIN s}

RECURSIVE Pow2(_)
Pow2(n) == IF n = 0 THEN 1 ELSE 2 * Pow2(n - 1)

StartsWith(s, p) == Len(s) >= Len(p) /\ SubSeq(s, 1, Len(p)) = p

-----------------------------------------------------------------------------
(* Field values of a market record of the redemption query *)

\* a slug is the sequence of its dash-separated segments
SlugBtc5m == <<"btc", "updown", "5m", "1">>
SlugBtcDaily == <<"btc", "daily", "7">>

\* conditionId: pfx = it is a string starting with "0x", len = its length
NoCid == [pfx |-> FALSE, len |-> 0, id |-> 0]
ShortCid == [pfx |-> TRUE, len |-> 10, id |-> 1]
Cid(n) == [pfx |-> TRUE, len |-> CidLen, id |-> n]

\* a list-ish field: kind "none" (absent), "list" (a JSON list) or "str" (a
\* string holding a JSON list)
Absent == [kind |-> "none", items |-> <<>>]
ListOf(s) == [kind |-> "list", items |-> s]
StrOf(s) == [kind |-> "str", items |-> s]

\* an entry of a numerator list: an integer, or a value int() rejects
Num(n) == [int |-> TRUE, v |-> n]
Junk == [int |-> FALSE, v |-> 0]

\* winner names; "" stands for an absent (falsy) winner field
NoWinner == ""

\* str.strip().lower() on the names of the model
StripLower(s) ==
    CASE s = "Up" -> "up"
      [] s = "Down" -> "down"
      [] s = " DOWN " -> "down"
      [] s = "Maybe" -> "maybe"
      [] OTHER -> s

\* int(token_id) on the token ids of the model; NoIndex when int() raises
TokenInt(t) ==
    CASE t = "1" -> 1
      [] t = "2" -> 2
      [] OTHER -> NoIndex

Tokens == {1, 2}

\* balances a wallet holds of a position token
Balances == {0, 12}

-----------------------------------------------------------------------------
(* Pure helpers of tool/redeem.py *)

\* _parse_listish(v, default=[])
_parse_listish(v) == IF v.kind = "none" THEN <<>> ELSE v.items

\* _parse_int_listish(v): a list drops the entries int() rejects, a JSON
\* string with such an entry is rejected whole
_parse_int_listish(v) ==
    CASE v.kind = "list" -> [i \in 1..Len(SelectSeq(v.items, LAMBDA x : x.int))
                               |-> SelectSeq(v.items, LAMBDA x : x.int)[i].v]
      [] v.kind = "str" -> IF \A i \in DOMAIN v.items : v.items[i].int
                             THEN [i \in DOMAIN v.items |-> v.items[i].v]
                             ELSE <<>>
      [] OTHER -> <<>>

\* Python truthiness of a list-ish field as stored in the record
Truthy(v) == v.kind = "str" \/ (v.kind = "list" /\ v.items # <<>>)

_market_is_resolved(m) ==
    \/ m.resolved
    \/ (m.closed /\ (m.winner # NoWinner \/ Truthy(m.payoutNumerators)))
    \/ m.resolution

\* a conditionId accepted without the length test
_extract_condition_id_NoLen(m) ==
    IF m.conditionId.pfx THEN m.conditionId ELSE NoCid
\* _extract_condition_id(m): NoCid stands for None
_extract_condition_id(m) ==
    IF m.conditionId.pfx /\ m.conditionId.len = CidLen
    THEN m.conditionId ELSE NoCid

\* the least index of the set I of (1-based) indices, NoIndex when I is empty
FirstIndex(I) ==
    IF I = {} THEN NoIndex ELSE CHOOSE i \in I : \A j \in I : i <= j

\* _pick_winning_index(m, outcomes): 0-based index, NoIndex for None
_pick_winning_index(m, outcomes) ==
    LET wl == StripLower(m.winner)
        byName == FirstIndex({i \in DOMAIN outcomes :
                                StripLower(outcomes[i]) = wl})
        pn == _parse_int_listish(m.payoutNumerators)
        byPayout == FirstIndex({i \in DOMAIN pn : pn[i] # 0 /\ pn[i] > 0})
    IN  IF m.winner # NoWinner /\ outcomes # <<>> /\ byName # NoIndex
        THEN byName - 1
        ELSE IF byPayout # NoIndex THEN byPayout - 1 ELSE NoIndex

\* _clob_token_ids(m)
_clob_token_ids(m) == _parse_listish(m.clobTokenIds)

\* _slug_prefix(cfg)
_slug_prefix(c) ==
    IF c.series_slug = "btc-up-or-down-5m"
    THEN <<"btc", "updown", "5m">> ELSE <<"btc">>

-----------------------------------------------------------------------------
(* The listing API: the records it holds for the query, served in pages *)

\* the page the API serves for (offset, limit)
PageAt(d, off, limit) ==
    IF off >= Len(d) THEN <<>> ELSE SubSeq(d, off + 1, Min(off + limit, Len(d)))

\* what a page request can come back as
ResponseKinds == {"ok", "http_error", "not_json", "not_list"}

-----------------------------------------------------------------------------
(* redeem_last_hours(cfg): the redemption pass *)

NoTx == [stage |-> "none", cand |-> 0, nonce |-> NoIndex, fee |-> "none",
         maxFeePerGas |-> 0, maxPriorityFeePerGas |-> 0, gas |-> "none",
         gasLimit |-> 0,
         indexSets |-> <<>>, parentZeroBytes |-> 0, conditionId |-> NoCid]

\* the call ends: it returns (how = "returned") or an exception leaves it
Finish(how) ==
    /\ pc' = "done"
    /\ result' = how

\* lines 313-333: the early returns, then the connection to the RPC endpoint
R_Start ==
    /\ entry = "redeem"
    /\ pc = "r_start"
    /\ UNCHANGED <<entry, cfg, db, requests, bi, cands, buildLog, attempts,
                   chain,
                   exitStatus, run, lastTx, redeemedAtStart, orders,
                   redeemCall>>
    /\ \/ /\ ~cfg.auto_redeem
          /\ Finish("returned")
          /\ UNCHANGED <<rpc, offset, out>>
       \/ /\ cfg.auto_redeem
          /\ ~cfg.polygon_rpc_url
          /\ rpc' = "unset"
          /\ Finish("returned")
          /\ UNCHANGED <<offset, out>>
       \/ /\ cfg.auto_redeem
          /\ cfg.polygon_rpc_url
          /\ \E connected \in BOOLEAN :
                IF connected
                THEN /\ rpc' = "up"
                     /\ pc' = "r_list"
                     /\ offset' = 0
                     /\ out' = <<>>
                     /\ UNCHANGED result
                ELSE /\ rpc' = "down"
                     /\ Finish("returned")
                     /\ UNCHANGED <<offset, out>>

\* _anchor_end_utc(cfg), in hours: WINDOW_END as an instant, or now
_anchor_end_utc(c) == c.anchor_end

\* the lookback window of lines 318-319:
\* start_utc = end_utc - timedelta(hours=int(cfg.redeem_lookback_hours))
RedeemWindow(c) ==
    [start_utc |-> _anchor_end_utc(c) - c.redeem_lookback_hours,
     end_utc |-> _anchor_end_utc(c)]

\* the limit of _gamma_markets_between
RedeemLimit(c) == Min(c.max_markets, RedeemPageCap)

\* whether the lister of the redemption pass stops after this page
RedeemListerStops(page, limit) == Len(page) < limit

\* _gamma_markets_between, one iteration of its while loop (lines 207-239)
R_FetchPage ==
    /\ entry = "redeem"
    /\ pc = "r_list"
    /\ UNCHANGED <<entry, cfg, db, bi, cands, buildLog, attempts, chain, rpc,
                   exitStatus, run, lastTx, redeemedAtStart, orders,
                   redeemCall>>
    /\ \E kind \in ResponseKinds :
         LET limit == RedeemLimit(cfg)
             page == PageAt(db, offset, limit)
             prefix == _slug_prefix(cfg)
         IN  /\ requests' = Append(requests,
                            [offset |-> offset, kind |-> kind,
                             start_date_min |-> RedeemWindow(cfg).start_utc,
                             start_date_max |-> RedeemWindow(cfg).end_utc])
             /\ IF kind = "ok"
                THEN /\ out' = out \o SelectSeq(page,
                                        LAMBDA m : StartsWith(m.slug, prefix))
                     /\ IF RedeemListerStops(page, limit)
                        THEN /\ pc' = "r_build"
                             /\ UNCHANGED <<offset, result>>
                        ELSE /\ offset' = offset + limit
                             /\ UNCHANGED <<pc, result>>
                ELSE /\ Finish("raised")
                     /\ UNCHANGED <<offset, out>>

\* a balance test that lets a zero balance through
BalanceRedeemable_NonNegative(b) == b >= 0
\* no balance test at all
BalanceRedeemable_Always(b) == TRUE
\* "if bal <= 0: continue", read as the test a candidate has to pass
BalanceRedeemable(b) == b > 0

\* the winning index itself passed where the index set is expected
IndexSet_Index(win_idx) == win_idx
\* "index_set = 1 << int(win_idx)" (line 287)
IndexSet(win_idx) == Pow2(win_idx)

\* whether the loop body of _build_candidates gets as far as the balance call
\* for market m (lines 260-276)
ReachesBalanceCall(m) ==
    LET win_idx == _pick_winning_index(m, _parse_listish(m.outcomes))
    IN  /\ _market_is_resolved(m)
        /\ _extract_condition_id(m) # NoCid
        /\ win_idx # NoIndex
        /\ Len(_clob_token_ids(m)) >= win_idx + 1

\* the loop body of _build_candidates for the market at position i of the
\* listing (lines 258-298): <<>> when the market is skipped, else the one
\* candidate.  callOk: the balanceOf call went through; the int(token_id) in
\* the same try block fails on its own for a non-numeric token id.
_build_candidate(m, i, balances, callOk) ==
    LET condition_id == _extract_condition_id(m)
        outcomes == _parse_listish(m.outcomes)
        win_idx == _pick_winning_index(m, outcomes)
        token_ids == _clob_token_ids(m)
    IN  IF ~_market_is_resolved(m) THEN <<>>
        ELSE IF condition_id = NoCid THEN <<>>
        ELSE IF win_idx = NoIndex THEN <<>>
        ELSE IF Len(token_ids) < win_idx + 1 THEN <<>>
        ELSE LET token_id == token_ids[win_idx + 1]
                 tok == TokenInt(token_id)
             IN  IF tok = NoIndex \/ ~callOk THEN <<>>
                 ELSE IF ~BalanceRedeemable(balances[tok]) THEN <<>>
                 ELSE << [src |-> i,
                          slug |-> m.slug,
                          condition_id |-> condition_id,
                          winning_index |-> win_idx,
                          winning_index_set |-> IndexSet(win_idx),
                          token_id |-> token_id,
                          token_balance |-> balances[tok]] >>

\* a candidate put in front of the list
AppendCandidate_Front(cs, new) == new \o cs
\* "cands.append(RedeemCandidate(...))" (line 288); new is <<>> for a market
\* that was skipped
AppendCandidate(cs, new) == cs \o new

\* _build_candidates after the listing (lines 246-300) and the return of
\* redeem_last_hours when there is nothing to redeem (lines 346-349); one
\* step per market of the listing
R_BuildStep ==
    /\ entry = "redeem"
    /\ pc = "r_build"
    /\ UNCHANGED <<entry, cfg, db, offset, out, requests, attempts, chain, rpc,
                   exitStatus, run, lastTx, redeemedAtStart, orders,
                   redeemCall>>
    /\ IF out = <<>>
       THEN /\ Finish("returned")
            /\ UNCHANGED <<bi, cands, buildLog>>
       ELSE \E callOk \in BOOLEAN :
              /\ ReachesBalanceCall(out[bi]) \/ callOk
              /\ cands' = AppendCandidate(cands,
                             _build_candidate(out[bi], bi, chain.bal, callOk))
              /\ buildLog' = Append(buildLog, [bal |-> chain.bal,
                                                callOk |-> callOk])
              /\ bi' = bi + 1
              /\ IF bi < Len(out)
                 THEN UNCHANGED <<pc, result>>
                 ELSE IF cands' = <<>>
                      THEN Finish("returned")
                      ELSE pc' = "r_submit" /\ UNCHANGED result

-----------------------------------------------------------------------------
(* The submission loop of redeem_last_hours (lines 357-392) *)

\* values the node answers with (fees in units of 10^8 wei, which keeps
\* them within TLC's integers)
NodeGasPrices == {300}
NodeGasEstimates == {100000}
NodeFees == {[maxFeePerGas |-> 700, maxPriorityFeePerGas |-> 300]}

\* where the loop goes after the attempt for candidate k ended in `stage`
AfterAttempt_Abort(stage, k) ==
    IF stage # "sent" THEN [pc |-> "done", result |-> "raised"]
    ELSE IF k < Len(cands) THEN [pc |-> "r_submit", result |-> "running"]
    ELSE [pc |-> "done", result |-> "returned"]
AfterAttempt(stage, k) ==
    IF k < Len(cands) THEN [pc |-> "r_submit", result |-> "running"]
    ELSE [pc |-> "done", result |-> "returned"]

\* the stages at which the try block of one candidate can end
Stages == {"nonce_failed", "build_failed", "sign_failed", "broadcast_failed",
           "sent"}

\* the transaction of candidate c as the try block leaves it.  fee: "node"
\* (build_transaction already put maxFeePerGas in), "oracle" (w3.eth.gas_price
\* answered base) or "fallback"; gas: "estimate" (estimate_gas answered est)
\* or "fallback"
BuiltTx(c, k, stage, nonce, fee, base, nodeFee, gas, est) ==
    [stage |-> stage, cand |-> k, nonce |-> nonce, fee |-> fee,
     maxFeePerGas |-> CASE fee = "node" -> nodeFee.maxFeePerGas
                        [] fee = "oracle" -> base * 2
                        [] OTHER -> FallbackBaseFee * 2,
     maxPriorityFeePerGas |->
         CASE fee = "node" -> nodeFee.maxPriorityFeePerGas
           [] fee = "oracle" -> base \div 4
           [] OTHER -> FallbackBaseFee \div 4,
     gas |-> gas,
     gasLimit |-> IF gas = "estimate" THEN (est * 12) \div 10 ELSE FallbackGas,
     indexSets |-> <<c.winning_index_set>>,
     parentZeroBytes |-> 32,
     conditionId |-> c.condition_id]

\* the two inner try blocks missing: a failed fee oracle or gas simulation
\* ends the attempt
TryBlockEnd_NoInnerTry(failed, fee, gas) ==
    IF fee = "fallback" \/ gas = "fallback" THEN "oracle_failed" ELSE failed
\* the stage at which the try block of a built transaction ends (lines
\* 374-390).  failed: the first of sign and broadcast that raises, "sent" if
\* neither does; the exceptions of w3.eth.gas_price (fee = "fallback") and
\* of estimate_gas (gas = "fallback") are caught by the inner try blocks of
\* lines 376-379 and 383-386 and do not end it
TryBlockEnd(failed, fee, gas) == failed

\* the nonce of the previous attempt used again
NonceFor_Cached(k) ==
    IF k > 1 /\ attempts[k - 1].nonce # NoIndex
    THEN attempts[k - 1].nonce ELSE chain.txCount
\* "nonce": w3.eth.get_transaction_count(owner) (line 370), evaluated in the
\* try block of candidate k: the account's count of mined transactions then
NonceFor(k) == chain.txCount

\* one iteration of "for c in cands"
R_Submit ==
    /\ entry = "redeem"
    /\ pc = "r_submit"
    /\ UNCHANGED <<entry, cfg, db, offset, out, requests, bi, cands, buildLog,
                   rpc,
                   exitStatus, run, redeemedAtStart, orders,
                   redeemCall>>
    /\ LET k == Len(attempts) + 1
           c == cands[k]
           nonce == NonceFor(k)
       IN  \E stage \in Stages :
             /\ \/ /\ stage = "nonce_failed"
                   /\ lastTx' = [NoTx EXCEPT !.stage = stage, !.cand = k]
                \/ /\ stage = "build_failed"
                   /\ lastTx' = [NoTx EXCEPT !.stage = stage, !.cand = k,
                                             !.nonce = nonce]
                \/ /\ stage \in {"sign_failed", "broadcast_failed", "sent"}
                   /\ \E fee \in {"node", "oracle", "fallback"},
                         gas \in {"estimate", "fallback"},
                         base \in NodeGasPrices, nodeFee \in NodeFees,
                         est \in NodeGasEstimates :
                        lastTx' = BuiltTx(c, k, TryBlockEnd(stage, fee, gas),
                                          nonce, fee, base, nodeFee, gas, est)
             /\ attempts' = Append(attempts,
                                [cand |-> k,
                                 status |-> IF lastTx'.stage = "sent"
                                            THEN "sent" ELSE "failed",
                                 nonce |-> lastTx'.nonce])
             /\ chain' = IF lastTx'.stage = "sent"
                         THEN [chain EXCEPT !.pending = @ \cup
                                 {[nonce |-> nonce,
                                   token |-> TokenInt(c.token_id),
                                   cid |-> c.condition_id.id]}]
                         ELSE chain
             /\ pc' = AfterAttempt(lastTx'.stage, k).pc
             /\ result' = AfterAttempt(lastTx'.stage, k).result

\* the chain mines a pending redemption whose nonce is the account's next
\* one: the position is burnt, the nonce is used up
ChainMines ==
    /\ \E tx \in chain.pending :
         /\ tx.nonce = chain.txCount
         /\ chain' = [bal |-> [chain.bal EXCEPT ![tx.token] = 0],
                      txCount |-> chain.txCount + 1,
                      pending |-> {p \in chain.pending : p.nonce # tx.nonce},
                      redeemed |-> chain.redeemed \cup {tx.token}]
    /\ UNCHANGED <<entry, pc, cfg, db, offset, out, requests, bi, cands,
                   buildLog, attempts, rpc, result, exitStatus, run, lastTx,
                   redeemedAtStart, orders,
                   redeemCall>>

\* redeem_last_hours is run again, against the chain as it is by then
R_Rerun ==
    /\ entry = "redeem"
    /\ pc = "done"
    /\ run < MaxRuns
    /\ run' = run + 1
    /\ pc' = "r_start"
    /\ result' = "running"
    /\ offset' = 0
    /\ out' = <<>>
    /\ requests' = <<>>
    /\ bi' = 1
    /\ cands' = <<>>
    /\ buildLog' = <<>>
    /\ attempts' = <<>>
    /\ lastTx' = NoTx
    /\ rpc' = "unknown"
    /\ redeemedAtStart' = chain.redeemed
    /\ UNCHANGED <<entry, cfg, db, chain, exitStatus, orders,
                   redeemCall>>

-----------------------------------------------------------------------------
(* Inputs of the redemption pass *)

Market(slug, resolved, closed, resolution, cid, winner, outcomes, pn, toks) ==
    [slug |-> slug, resolved |-> resolved, closed |-> closed,
     resolution |-> resolution, conditionId |-> cid, winner |-> winner,
     outcomes |-> outcomes, payoutNumerators |-> pn, clobTokenIds |-> toks]

UpDown == ListOf(<<"Up", "Down">>)
BothTokens == ListOf(<<"1", "2">>)

\* resolved with an explicit winner: "Down", index 1, token "2"
GoodA == Market(SlugBtc5m, TRUE, FALSE, FALSE, Cid(1), " DOWN ", UpDown,
                ListOf(<<Num(0), Num(1)>>), BothTokens)
\* closed with payout numerators only: index 0, token "1"
GoodB == Market(SlugBtc5m, FALSE, TRUE, FALSE, Cid(2), NoWinner, UpDown,
                ListOf(<<Num(1), Num(0)>>), BothTokens)

\* the markets a listing of several records is made of
BatchMarkets ==
    {GoodA, GoodB,
     [GoodA EXCEPT !.conditionId = NoCid],
     [GoodA EXCEPT !.clobTokenIds = ListOf(<<"1">>)],
     [GoodB EXCEPT !.slug = SlugBtcDaily]}

\* the markets of the listings that pagination and the slug filter are
\* exercised on with the other page sizes and the other series
PagingMarkets == {GoodA, [GoodB EXCEPT !.slug = SlugBtcDaily]}

\* the markets of a one-record listing: every combination of the field values
FieldMarkets ==
    {Market(SlugBtc5m, st[1], st[2], st[3], cid, winner, outcomes, pn, toks) :
        st \in {<<FALSE, FALSE, FALSE>>, <<TRUE, FALSE, FALSE>>,
                <<FALSE, TRUE, FALSE>>, <<FALSE, FALSE, TRUE>>},
        cid \in {NoCid, ShortCid, Cid(1)},
        winner \in {NoWinner, " DOWN ", "Maybe"},
        outcomes \in {Absent, UpDown},
        pn \in {Absent, ListOf(<<Num(0), Num(1)>>), ListOf(<<Num(1), Num(1)>>),
                ListOf(<<Junk, Num(1)>>), StrOf(<<Junk, Num(1)>>),
                ListOf(<<Num(0), Num(0)>>)},
        toks \in {Absent, ListOf(<<"1">>), BothTokens, ListOf(<<"1", "x">>)}}

SeqsUpTo(S, n) == UNION {[1..k -> S] : k \in 0..n}

\* the attributes redeem_last_hours reads of cfg; the lookback is 12 hours
\* (the default of REDEEM_LOOKBACK_HOURS) unless set otherwise, the anchor
\* is hour 24
RedeemCfg(auto, rpcSet, maxm, series) ==
    [auto_redeem |-> auto, polygon_rpc_url |-> rpcSet, max_markets |-> maxm,
     series_slug |-> series, redeem_lookback_hours |-> 12, anchor_end |-> 24]

\* values REDEEM_LOOKBACK_HOURS is set to: any integer is taken as it is
LookbackHours == {0 - 1, 0, 1, 12}

\* configurations that differ in the lookback only
LookbackCfgs ==
    {[RedeemCfg(TRUE, TRUE, 1, "btc-up-or-down-5m")
        EXCEPT !.redeem_lookback_hours = h] : h \in LookbackHours}

\* a configuration with which the pass gets to the listing
RunningCfgs ==
    {RedeemCfg(TRUE, TRUE, maxm, "btc-up-or-down-5m") : maxm \in 1..MaxCfgMarkets}
    \cup {RedeemCfg(TRUE, TRUE, 1, "btc-daily")}

\* configurations with which the pass returns at once
IdleCfgs == {RedeemCfg(FALSE, TRUE, 1, "btc-up-or-down-5m"),
             RedeemCfg(TRUE, FALSE, 1, "btc-up-or-down-5m")}

Chain0(bal) == [bal |-> bal, txCount |-> 0, pending |-> {}, redeemed |-> {}]

InitRedeem ==
    /\ entry = "redeem"
    /\ pc = "r_start"
    /\ \/ /\ cfg = RedeemCfg(TRUE, TRUE, 1, "btc-up-or-down-5m")
          /\ db \in SeqsUpTo(BatchMarkets, MaxListed)
       \/ /\ cfg \in RunningCfgs
          /\ db \in SeqsUpTo(PagingMarkets, MaxListed)
       \/ /\ cfg = RedeemCfg(TRUE, TRUE, 1, "btc-up-or-down-5m")
          /\ db \in {<<m>> : m \in FieldMarkets}
       \/ /\ cfg \in IdleCfgs
          /\ db = <<>>
       \/ /\ cfg \in LookbackCfgs
          /\ db \in {<<>>, <<GoodA>>}
    /\ chain \in {Chain0(b) : b \in [Tokens -> Balances]}
    /\ offset = 0
    /\ out = <<>>
    /\ requests = <<>>
    /\ bi = 1
    /\ cands = <<>>
    /\ buildLog = <<>>
    /\ attempts = <<>>
    /\ rpc = "unknown"
    /\ result = "running"
    /\ exitStatus = NoStatus
    /\ run = 1
    /\ lastTx = NoTx
    /\ redeemedAtStart = {}
    /\ orders = <<>>
    /\ redeemCall = "none"

NextRedeem ==
    \/ R_Start
    \/ R_FetchPage
    \/ R_BuildStep
    \/ R_Submit
    \/ ChainMines
    \/ R_Rerun

SpecRedeem == InitRedeem /\ [][NextRedeem]_vars

-----------------------------------------------------------------------------
(* Properties of the redemption pass *)

\* _build_candidates has gone over the whole listing
BuildDone ==
    /\ entry = "redeem"
    /\ rpc = "up"
    /\ pc = "r_submit" \/ (pc = "done" /\ result = "returned")

\* the listed market at position i yielded a candidate
Emitted(i) == \E k \in DOMAIN cands : cands[k].src = i

WinIdx(m) == _pick_winning_index(m, _parse_listish(m.outcomes))

\* the token-id list of m has an entry at the winning index
HasWinningToken(m) ==
    WinIdx(m) # NoIndex /\ Len(_clob_token_ids(m)) >= WinIdx(m) + 1

\* the chain's balance of m's winning token when m (at position i) was looked
\* at, 0 when the token id is no number
BalanceThen(m, i) ==
    LET tok == TokenInt(_clob_token_ids(m)[WinIdx(m) + 1])
    IN  IF tok = NoIndex THEN 0 ELSE buildLog[i].bal[tok]

ValidCid(m) == m.conditionId.pfx /\ m.conditionId.len = CidLen

\* C3 as stated: a listed market yields a candidate if and only if it is
\* resolved, a winning index is determined and the on-chain balance of the
\* winning token is strictly positive.
C3_EmittedIffResolvedWinnerBalance ==
    BuildDone =>
        \A i \in DOMAIN out :
            Emitted(i) <=> /\ _market_is_resolved(out[i])
                           /\ HasWinningToken(out[i])
                           /\ BalanceThen(out[i], i) > 0

\* C3 amended: a listed market yields a candidate if and only if it is
\* resolved, carries a valid conditionId, a winning index is determined, its
\* token-id list reaches that index and the balance read for that token
\* succeeds and is strictly positive; a zero balance yields no candidate.
C3_EmittedIffEligible ==
    BuildDone =>
        \A i \in DOMAIN out :
            /\ Emitted(i) <=> /\ _market_is_resolved(out[i])
                              /\ ValidCid(out[i])
                              /\ HasWinningToken(out[i])
                              /\ buildLog[i].callOk
                              /\ BalanceThen(out[i], i) > 0
            /\ Cardinality({k \in DOMAIN cands : cands[k].src = i}) <= 1

\* C3 witness: the resolver is through, one market was emitted, and another
\* with every field valid but a zero balance was not
C3_Witness ==
    /\ BuildDone
    /\ \E i \in DOMAIN out : Emitted(i)
    /\ \E i \in DOMAIN out :
         /\ _market_is_resolved(out[i]) /\ ValidCid(out[i])
         /\ HasWinningToken(out[i]) /\ buildLog[i].callOk
         /\ TokenInt(_clob_token_ids(out[i])[WinIdx(out[i]) + 1]) # NoIndex
         /\ BalanceThen(out[i], i) = 0
         /\ ~Emitted(i)

\* C4 as stated: a market without an outcomes list never yields a candidate.
C4_NoCandidateWithoutOutcomes ==
    \A k \in DOMAIN cands : out[cands[k].src].outcomes.kind # "none"

\* C5: a market without a valid conditionId, or whose token-id list is
\* shorter than winning index + 1, never yields a candidate; the resolver
\* never raises over it (the pass raises only when a listing request failed)
\* and goes on to resolve every other market of the batch.
C5_BadMarketSkippedBatchGoesOn ==
    /\ \A k \in DOMAIN cands :
         /\ ValidCid(out[cands[k].src])
         /\ Len(_clob_token_ids(out[cands[k].src])) >= cands[k].winning_index + 1
    /\ (entry = "redeem" /\ result = "raised") =>
         /\ requests # <<>>
         /\ requests[Len(requests)].kind # "ok"
         /\ buildLog = <<>>
    /\ BuildDone =>
         /\ Len(buildLog) = Len(out)
         /\ \A j \in DOMAIN out :
              (/\ _market_is_resolved(out[j]) /\ ValidCid(out[j])
               /\ HasWinningToken(out[j]) /\ buildLog[j].callOk
               /\ BalanceThen(out[j], j) > 0) => Emitted(j)

\* C5 witness: a market without conditionId and one with a short token list
\* were skipped, and a market listed after them yielded its candidate
C5_Witness ==
    /\ BuildDone
    /\ \E i, j \in DOMAIN out :
         /\ i < j
         /\ \/ ~ValidCid(out[i])
            \/ (WinIdx(out[i]) # NoIndex /\ ~HasWinningToken(out[i]))
         /\ _market_is_resolved(out[i])
         /\ ~Emitted(i)
         /\ Emitted(j)

\* C6: every candidate gets exactly one submission attempt per pass, in
\* order: attempt k is for candidate k whatever happened to the attempts
\* before it, a failed attempt does not end the pass with an exception, and
\* when the pass is over each candidate has been attempted once.
C6_OneAttemptPerCandidate ==
    entry = "redeem" =>
        /\ Len(attempts) <= Len(cands)
        /\ \A k \in DOMAIN attempts : attempts[k].cand = k
        /\ (pc = "done" /\ cands # <<>>) =>
              /\ Len(attempts) = Len(cands)
              /\ result = "returned"

\* C6 witness: the pass is over, the first candidate's attempt failed and the
\* second candidate's transaction was sent
C6_Witness ==
    /\ pc = "done"
    /\ Len(cands) >= 2
    /\ attempts[1].status = "failed"
    /\ attempts[2].status = "sent"

\* C7: a run that starts after the redemption of a token was mined (its
\* balance is zero from then on) yields no candidate for that token, and so
\* broadcasts no transaction for it.
C7_NoCandidateForRedeemedToken ==
    /\ \A k \in DOMAIN cands : TokenInt(cands[k].token_id) \notin redeemedAtStart
    /\ \A k \in DOMAIN attempts :
         attempts[k].status = "sent" =>
             TokenInt(cands[attempts[k].cand].token_id) \notin redeemedAtStart

\* C7 witness: a second run has resolved a listing that holds a market whose
\* winning token was redeemed before the run began
C7_Witness ==
    /\ run >= 2
    /\ BuildDone
    /\ \E i \in DOMAIN out :
         /\ ReachesBalanceCall(out[i])
         /\ buildLog[i].callOk
         /\ TokenInt(_clob_token_ids(out[i])[WinIdx(out[i]) + 1]) \in redeemedAtStart
         /\ ~Emitted(i)

\* C12: every emitted candidate has winning_index_set = 1 << winning_index,
\* token_id = the entry of the market's token-id list at winning_index and
\* token_balance = the strictly positive balance read for that token; the
\* transaction built for it passes exactly [winning_index_set] as indexSets
\* and 32 zero bytes as parentCollectionId.
C12_CandidateAndTxFields ==
    entry = "redeem" =>
        /\ \A k \in DOMAIN cands :
             LET c == cands[k]
                 m == out[c.src]
             IN  /\ c.winning_index = WinIdx(m)
                 /\ c.winning_index >= 0
                 /\ c.winning_index_set = 2 ^ c.winning_index
                 /\ c.token_id = _clob_token_ids(m)[c.winning_index + 1]
                 /\ c.token_balance = buildLog[c.src].bal[TokenInt(c.token_id)]
                 /\ c.token_balance > 0
        /\ lastTx.stage \in {"sign_failed", "broadcast_failed", "sent"} =>
             /\ lastTx.indexSets = <<2 ^ cands[lastTx.cand].winning_index>>
             /\ lastTx.parentZeroBytes = 32
             /\ lastTx.conditionId = cands[lastTx.cand].condition_id

\* C12 witness: the transaction of a candidate with winning index 1 (index
\* set 2) was sent, and a candidate with winning index 0 was emitted too
C12_Witness ==
    /\ entry = "redeem"
    /\ lastTx.stage = "sent"
    /\ cands[lastTx.cand].winning_index = 1
    /\ lastTx.indexSets = <<2>>
    /\ \E k \in DOMAIN cands : cands[k].winning_index = 0

\* C14 as stated: every window a listing of the redemption pass is queried
\* with has start < end, whatever the configured lookback.
C14_QueryWindowStartBeforeEnd ==
    entry = "redeem" =>
        \A i \in DOMAIN requests :
            requests[i].start_date_min < requests[i].start_date_max

\* C16: within a run the candidates stand in the order in which the listing
\* returned their markets, and the submission attempts are made in that
\* order: for candidates a before b in discovery order, the attempt for a
\* precedes the attempt for b.
C16_DiscoveryOrderKept ==
    entry = "redeem" =>
        /\ \A a, b \in DOMAIN cands :
             a < b => cands[a].src < cands[b].src
        /\ \A i, j \in DOMAIN attempts :
             i < j => cands[attempts[i].cand].src < cands[attempts[j].cand].src

\* C16 witness: the first two markets of the listing, two different ones,
\* yielded candidates and both were attempted, in that order
C16_Witness ==
    /\ entry = "redeem"
    /\ Len(attempts) = 2
    /\ cands[attempts[1].cand].src = 1
    /\ cands[attempts[2].cand].src = 2
    /\ out[1] # out[2]

\* C17: the nonce of each redemption transaction is read from the chain
\* while that transaction is built, after the attempts before it: in the
\* step that makes an attempt, the nonce it records is the account's
\* transaction count at that moment, not a value read for an earlier
\* candidate.
C17_NonceReadPerAttempt ==
    [][(/\ entry = "redeem"
        /\ Len(attempts') = Len(attempts) + 1
        /\ attempts'[Len(attempts')].nonce # NoIndex)
       => attempts'[Len(attempts')].nonce = chain.txCount]_vars

\* C17 witness: the first candidate's transaction was mined before the
\* second candidate's was built, and the second carries the later nonce
C17_Witness ==
    /\ entry = "redeem"
    /\ Len(attempts) = 2
    /\ attempts[1].status = "sent"
    /\ attempts[1].nonce = 0
    /\ attempts[2].nonce = 1

\* the explicit winner of m names one of its outcomes
WinnerNamed(m) ==
    /\ m.winner # NoWinner
    /\ \E i \in DOMAIN _parse_listish(m.outcomes) :
           StripLower(_parse_listish(m.outcomes)[i]) = StripLower(m.winner)

\* the number of strictly positive entries of m's payout numerators
PositiveNumerators(m) ==
    Cardinality({i \in DOMAIN m.payoutNumerators.items :
                    /\ m.payoutNumerators.items[i].int
                    /\ m.payoutNumerators.items[i].v > 0})

\* C18 as stated: a market with no matching explicit winner name and more
\* than one strictly positive payout numerator is ambiguous and yields no
\* candidate.
C18_AmbiguousPayoutSkipped ==
    entry = "redeem" =>
        \A k \in DOMAIN cands :
            ~(/\ ~WinnerNamed(out[cands[k].src])
              /\ PositiveNumerators(out[cands[k].src]) > 1)

\* C19: for a candidate whose transaction was built, a failure of the fee
\* oracle or of the gas simulation does not fail the attempt: after an
\* oracle failure maxFeePerGas is twice and maxPriorityFeePerGas a quarter
\* of the fixed base-fee estimate, after a simulation failure the gas limit
\* is 350,000, and the attempt goes on to signing and broadcast.
C19_FallbacksKeepAttemptAlive ==
    entry = "redeem" =>
        /\ lastTx.fee = "fallback" =>
              /\ lastTx.maxFeePerGas = 2 * FallbackBaseFee
              /\ 4 * lastTx.maxPriorityFeePerGas = FallbackBaseFee
        /\ lastTx.gas = "fallback" => lastTx.gasLimit = FallbackGas
        /\ (lastTx.fee = "fallback" \/ lastTx.gas = "fallback") =>
              /\ lastTx.stage \in {"sign_failed", "broadcast_failed", "sent"}
              /\ attempts # <<>>
              /\ attempts[Len(attempts)].status = "sent"
                    <=> lastTx.stage = "sent"

\* C19 witness: fee oracle and gas simulation both failed for a candidate
\* and its transaction was broadcast with the fallback values
C19_Witness ==
    /\ entry = "redeem"
    /\ lastTx.fee = "fallback"
    /\ lastTx.gas = "fallback"
    /\ lastTx.stage = "sent"
    /\ attempts[Len(attempts)].status = "sent"
    /\ \E tx \in chain.pending : tx.cid = lastTx.conditionId.id

\* C20 as stated: within one run at most one redemption transaction is
\* broadcast per conditionId, also when the listing returned the same market
\* more than once.
C20_OneBroadcastPerCondition ==
    entry = "redeem" =>
        \A i, j \in DOMAIN attempts :
            (/\ i # j
             /\ attempts[i].status = "sent"
             /\ attempts[j].status = "sent")
            => cands[attempts[i].cand].condition_id
                  # cands[attempts[j].cand].condition_id

\* C21 as stated: no two transactions broadcast in the same run carry the
\* same nonce, the account's transaction count going up only when a
\* broadcast transaction is mined.
C21_DistinctNoncesInRun ==
    entry = "redeem" =>
        \A i, j \in DOMAIN attempts :
            (/\ i # j
             /\ attempts[i].status = "sent"
             /\ attempts[j].status = "sent")
            => attempts[i].nonce # attempts[j].nonce

\* the position, in the payout numerators as the market carries them, of
\* the first strictly positive entry (1-based, NoIndex if there is none)
FirstPositiveNumerator(m) ==
    FirstIndex({i \in DOMAIN m.payoutNumerators.items :
                   /\ m.payoutNumerators.items[i].int
                   /\ m.payoutNumerators.items[i].v > 0})

\* C22 as stated: a winning index derived from the payout numerators is the
\* position of the first strictly positive entry in the market's original
\* sequence, also when the sequence holds entries that are no integers.
C22_PayoutIndexIsOriginalPosition ==
    entry = "redeem" =>
        \A k \in DOMAIN cands :
            ~WinnerNamed(out[cands[k].src]) =>
                cands[k].winning_index + 1
                    = FirstPositiveNumerator(out[cands[k].src])

-----------------------------------------------------------------------------
(* main(): configuration, the redemption call, trading discovery, orders *)

\* Config.parse_local_dt followed by astimezone(UTC), on the hours of the day
\* Europe/Madrid moves its clocks forward (02:00 -> 03:00): pytz's localize
\* reads an hour before 03:00 as CET (UTC+1), the skipped hour included, and
\* a later one as CEST (UTC+2)
MadridToUtc(local) == IF local < 3 THEN local - 1 ELSE local - 2

LocalTimes == 1..(MaxSlotTime + 2)

\* a slot-start value as the record carries it: t is the instant it denotes;
\* an ISO-8601 string with Z, or the integer of its epoch seconds or epoch
\* milliseconds
NoSlot == [kind |-> "none", t |-> 0]
BadSlot == [kind |-> "bad", t |-> 0]
IsoZ(t) == [kind |-> "isoZ", t |-> t]
EpochSeconds(t) == [kind |-> "epoch_s", t |-> t]
EpochMillis(t) == [kind |-> "epoch_ms", t |-> t]

\* _extract_slot_start_iso(m): the first truthy of the start-time fields
_extract_slot_start_iso(m) == m.startTime

\* "if not st" (line 66): None, "" and the integer 0 are falsy
SlotFalsy(st) ==
    st.kind = "none" \/ (st.kind \in {"epoch_s", "epoch_ms"} /\ st.t = 0)

\* datetime.fromisoformat(st.replace("Z", "+00:00")).astimezone(UTC) inside
\* the try block (lines 69-72): only a string in ISO format gets through; an
\* integer has no replace()
ParseSlot(st) ==
    IF st.kind = "isoZ" THEN [ok |-> TRUE, t |-> st.t]
    ELSE [ok |-> FALSE, t |-> 0]

\* "if start_utc <= st_dt < end_utc" (line 75)
InWindow(t, start_utc, end_utc) == start_utc <= t /\ t < end_utc

\* the filter of lines 64-78 on one record
Matches(m, c) ==
    LET st == _extract_slot_start_iso(m)
    IN  /\ ~SlotFalsy(st)
        /\ ParseSlot(st).ok
        /\ InWindow(ParseSlot(st).t, MadridToUtc(c.window_start_local),
                    MadridToUtc(c.window_end_local))

\* the discovery query's records: d.len of them, those at the positions of
\* d.specials as given there, every other one a record without start time
DiscRecord(st, closed) ==
    [slug |-> SlugBtc5m, startTime |-> st, closed |-> closed,
     acceptingOrders |-> TRUE, clobTokenIds |-> BothTokens]

Filler == DiscRecord(NoSlot, FALSE)

DbAt(d, i) == IF i \in DOMAIN d.specials THEN d.specials[i] ELSE Filler

\* the page the API serves for (offset, limit) of the discovery query
DiscPageAt(d, off, limit) ==
    LET n == IF off >= d.len THEN 0 ELSE Min(limit, d.len - off)
    IN  [i \in 1..n |-> DbAt(d, off + i)]

\* what a page request of the discovery lister can come back as: a list, an
\* HTTP error status, a body that is no JSON, a JSON body that is no list and
\* falsy (null, {}, "", 0) or truthy (an object, a string, a number)
DiscResponseKinds == {"ok", "http_error", "not_json", "falsy_body",
                      "truthy_body"}

\* an exception leaves main(): the interpreter exits with status 1
MainRaises ==
    /\ pc' = "done"
    /\ result' = "raised"
    /\ exitStatus' = 1

\* main() returns status
MainReturns(status) ==
    /\ pc' = "done"
    /\ result' = "returned"
    /\ exitStatus' = status

redeemVars == <<bi, cands, buildLog, attempts, chain, rpc, run, lastTx,
                redeemedAtStart>>

\* a window check on the local wall-clock values instead of the instants
WindowInvalid_WallClock(c) == c.window_end_local <= c.window_start_local
\* "if cfg.parse_local_dt(end) <= cfg.parse_local_dt(start)" (line 122): the
\* two localized datetimes are compared as instants
WindowInvalid(c) ==
    MadridToUtc(c.window_end_local) <= MadridToUtc(c.window_start_local)

\* load_config(): the window check of lines 121-123
M_LoadConfig ==
    /\ entry = "main"
    /\ pc = "m_load"
    /\ UNCHANGED <<entry, cfg, db, offset, out, requests, orders, redeemCall>>
    /\ UNCHANGED redeemVars
    /\ IF WindowInvalid(cfg)
       THEN MainRaises
       ELSE pc' = "m_redeem" /\ UNCHANGED <<result, exitStatus>>

\* main.py lines 28-35: the call passes MainCallArgs positional arguments to
\* a function of RedeemParams parameters, Python raises TypeError before the
\* body runs, and the except clause logs it
M_Redeem ==
    /\ entry = "main"
    /\ pc = "m_redeem"
    /\ UNCHANGED <<entry, cfg, db, requests, orders, result, exitStatus>>
    /\ UNCHANGED redeemVars
    /\ redeemCall' = IF ~cfg.auto_redeem THEN "skipped"
                     ELSE IF MainCallArgs # RedeemParams THEN "TypeError"
                     ELSE "entered"
    /\ pc' = "m_list"
    /\ offset' = 0
    /\ out' = <<>>

\* the limit of gamma_list_markets_for_series_in_window
GammaLimit(c) == Min(GammaPageCap, c.max_markets)

\* the list the lister holds after a non-empty page (lines 63-78): "out = []"
\* precedes the loop over the page
OutAfterPage(sofar, page, c) == SelectSeq(page, LAMBDA m : Matches(m, c))

\* main() after the lister returned markets (lines 40-42)
AfterDiscovery(markets) ==
    IF markets = <<>>
    THEN MainReturns(0)
    ELSE pc' = "m_orders" /\ UNCHANGED <<result, exitStatus>>

\* gamma_list_markets_for_series_in_window, one iteration of its while loop
\* (lines 39-82), and main()'s reaction when the lister returns or raises
M_FetchPage ==
    /\ entry = "main"
    /\ pc = "m_list"
    /\ UNCHANGED <<entry, cfg, db, orders, redeemCall>>
    /\ UNCHANGED redeemVars
    /\ \E kind \in DiscResponseKinds :
         LET limit == GammaLimit(cfg)
             page == DiscPageAt(db, offset, limit)
         IN  /\ requests' = Append(requests, [offset |-> offset, kind |-> kind])
             /\ CASE kind \in {"http_error", "not_json", "truthy_body"} ->
                       /\ MainRaises
                       /\ UNCHANGED <<offset, out>>
                  [] kind = "falsy_body" ->
                       /\ AfterDiscovery(out)
                       /\ UNCHANGED <<offset, out>>
                  [] kind = "ok" /\ page = <<>> ->
                       /\ AfterDiscovery(out)
                       /\ UNCHANGED <<offset, out>>
                  [] OTHER ->
                       /\ out' = OutAfterPage(out, page, cfg)
                       /\ offset' = offset + limit
                       /\ IF offset' >= cfg.max_markets
                          THEN AfterDiscovery(out')
                          ELSE UNCHANGED <<pc, result, exitStatus>>

\* the stages at which place_dual_orders_for_market can end for a market that
\* is open, with the orders posted by then
OrderStages == {[stage |-> "client_failed", posted |-> <<>>],
                [stage |-> "up_failed", posted |-> <<>>],
                [stage |-> "down_failed", posted |-> <<"UP">>],
                [stage |-> "ok", posted |-> <<"UP", "DOWN">>]}

\* the dry-run return missing: a dry run goes on to the client
PlaceOrdersEarly_DryRunIgnored(m, c) ==
    IF m.closed THEN "raise"
    ELSE IF ~m.acceptingOrders THEN "raise"
    ELSE IF Len(_parse_listish(m.clobTokenIds)) < 2 THEN "raise"
    ELSE "live"
\* place_dual_orders_for_market(cfg, m) up to the dry-run return (lines
\* 102-129): "raise" or "dry_run", or "live" when it goes on to the client
PlaceOrdersEarly(m, c) ==
    IF m.closed THEN "raise"
    ELSE IF ~m.acceptingOrders THEN "raise"
    ELSE IF Len(_parse_listish(m.clobTokenIds)) < 2 THEN "raise"
    ELSE IF c.dry_run THEN "dry_run"
    ELSE "live"

\* main.py lines 57-69: one iteration of "for m in markets", and the return
\* after the last one
M_PlaceOrders ==
    /\ entry = "main"
    /\ pc = "m_orders"
    /\ UNCHANGED <<entry, cfg, db, offset, out, requests, redeemCall>>
    /\ UNCHANGED redeemVars
    /\ LET k == Len(orders) + 1
           early == PlaceOrdersEarly(out[k], cfg)
       IN  /\ \E o \in OrderStages :
                 /\ early # "live" => o.stage = "ok"
                 /\ orders' = Append(orders,
                      CASE early = "raise" ->
                             [market |-> k, status |-> "FAIL", client |-> FALSE,
                              posted |-> <<>>]
                        [] early = "dry_run" ->
                             [market |-> k, status |-> "OK", client |-> FALSE,
                              posted |-> <<>>]
                        [] OTHER ->
                             [market |-> k,
                              status |-> IF o.stage = "ok" THEN "OK" ELSE "FAIL",
                              client |-> o.stage # "client_failed",
                              posted |-> o.posted])
           /\ IF k < Len(out)
              THEN UNCHANGED <<pc, result, exitStatus>>
              ELSE MainReturns(IF \A j \in DOMAIN orders' :
                                     orders'[j].status = "OK"
                               THEN 0 ELSE 1)

-----------------------------------------------------------------------------
(* Inputs of main() *)

MainCfg(s, e, maxm, dry, auto) ==
    [window_start_local |-> s, window_end_local |-> e, max_markets |-> maxm,
     dry_run |-> dry, auto_redeem |-> auto]

\* the start times and trading states of the records the model tells apart
DiscRecords ==
    {DiscRecord(st, FALSE) :
        st \in {NoSlot, BadSlot, EpochSeconds(1), EpochMillis(1)}
               \cup {IsoZ(t) : t \in 0..MaxSlotTime}}
    \cup {DiscRecord(IsoZ(t), TRUE) : t \in 0..MaxSlotTime}
    \cup {[DiscRecord(IsoZ(1), FALSE) EXCEPT !.acceptingOrders = FALSE]}

\* the first two positions of each page of GammaPageCap records
DiscPositions ==
    {k * GammaPageCap + j : k \in 0..(MaxPages - 1), j \in 1..2}

DiscLens == {k * GammaPageCap + j : k \in 0..(MaxPages - 1), j \in 0..2}

DiscDbsOfLen(n) ==
    {[len |-> n, specials |-> f] :
        f \in UNION {[S -> DiscRecords] :
                        S \in {T \in SUBSET (DiscPositions \cap 1..n) :
                                   Cardinality(T) <= 2}}}

DiscDbs == UNION {DiscDbsOfLen(n) : n \in DiscLens}

MaxMarketsChoices ==
    {1, GammaPageCap, GammaPageCap + 1, MaxPages * GammaPageCap}

InitMain ==
    /\ entry = "main"
    /\ pc = "m_load"
    /\ \E s \in LocalTimes, e \in LocalTimes, maxm \in MaxMarketsChoices,
          dry \in BOOLEAN, auto \in BOOLEAN :
          /\ cfg = MainCfg(s, e, maxm, dry, auto)
          /\ IF MadridToUtc(e) <= MadridToUtc(s)
             THEN db = [len |-> 0, specials |-> <<>>]
             ELSE db \in DiscDbs
    /\ chain = Chain0([t \in Tokens |-> 0])
    /\ offset = 0
    /\ out = <<>>
    /\ requests = <<>>
    /\ bi = 1
    /\ cands = <<>>
    /\ buildLog = <<>>
    /\ attempts = <<>>
    /\ rpc = "unknown"
    /\ result = "running"
    /\ exitStatus = NoStatus
    /\ run = 1
    /\ lastTx = NoTx
    /\ redeemedAtStart = {}
    /\ orders = <<>>
    /\ redeemCall = "none"

NextMain ==
    \/ M_LoadConfig
    \/ M_Redeem
    \/ M_FetchPage
    \/ M_PlaceOrders

SpecMain == InitMain /\ [][NextMain]_vars

-----------------------------------------------------------------------------
(* Properties of the listers and of the run *)

\* gamma_list_markets_for_series_in_window has returned its list to main()
ListerReturned ==
    /\ entry = "main"
    /\ pc = "m_orders" \/ (pc = "done" /\ result = "returned")

\* _gamma_markets_between has returned its list to _build_candidates
RedeemListerReturned ==
    /\ entry = "redeem"
    /\ rpc = "up"
    /\ pc \in {"r_build", "r_submit"} \/ (pc = "done" /\ result = "returned")

\* the records of the pages the discovery lister was served, in order
RECURSIVE Fetched(_)
Fetched(reqs) ==
    IF reqs = <<>> THEN <<>>
    ELSE LET r == reqs[Len(reqs)]
         IN  Fetched(SubSeq(reqs, 1, Len(reqs) - 1)) \o
             (IF r.kind = "ok"
              THEN DiscPageAt(db, r.offset, GammaLimit(cfg)) ELSE <<>>)

SlotOf(m) == ParseSlot(_extract_slot_start_iso(m))

\* C1 as stated: the discovery lister returns exactly the records, over all
\* the pages it fetched, whose slot start lies in [start, end).
C1_ReturnsMatchesOfAllPages ==
    ListerReturned =>
        out = SelectSeq(Fetched(requests),
                        LAMBDA m : /\ SlotOf(m).ok
                                   /\ MadridToUtc(cfg.window_start_local) <= SlotOf(m).t
                                   /\ SlotOf(m).t < MadridToUtc(cfg.window_end_local))

\* C2 as stated: whatever page it is on, a fetched market whose slot start
\* is the window's start is in the result, and none whose slot start is the
\* window's end is.
C2_HalfOpenOnEveryPage ==
    ListerReturned =>
        \A m \in Range(Fetched(requests)) :
            SlotOf(m).ok =>
                /\ SlotOf(m).t = MadridToUtc(cfg.window_start_local)
                      => m \in Range(out)
                /\ SlotOf(m).t = MadridToUtc(cfg.window_end_local)
                      => m \notin Range(out)

\* C8 as stated: a lister that has returned holds at most cfg.max_markets
\* records.
C8_AtMostMaxRecords ==
    (ListerReturned \/ RedeemListerReturned) => Len(out) <= cfg.max_markets

\* C9 as stated: once a page request came back as an HTTP error or with a
\* body that is no list, the listing call has failed; it returns no list.
C9_BadResponseFailsListing ==
    \A i \in DOMAIN requests :
        requests[i].kind # "ok" => (pc = "done" /\ result = "raised")

\* C10 as stated: after an HTTP error on the first page of a listing, or
\* with the RPC endpoint unreachable, the run ends with an error - main()
\* with a non-zero status, the redemption pass by raising - and no candidate
\* or market was processed.
C10_StructuralErrorEndsRun ==
    pc = "done" =>
        /\ (requests # <<>> /\ requests[1].kind = "http_error") =>
              /\ result = "raised"
              /\ entry = "main" => exitStatus # 0
              /\ attempts = <<>> /\ orders = <<>>
        /\ rpc = "down" =>
              /\ result = "raised"
              /\ attempts = <<>>

\* C11: a window whose end is not strictly after its start, compared as
\* instants after the Europe/Madrid to UTC conversion, makes load_config
\* fail: main() ends with status 1 and no listing request, no RPC call, no
\* redemption call and no order was made.
C11_InvalidWindowAbortsBeforeNetwork ==
    (/\ entry = "main"
     /\ MadridToUtc(cfg.window_end_local) <= MadridToUtc(cfg.window_start_local))
    => /\ requests = <<>>
       /\ orders = <<>>
       /\ redeemCall = "none"
       /\ rpc = "unknown"
       /\ attempts = <<>>
       /\ pc \in {"m_load", "done"}
       /\ pc = "done" => (result = "raised" /\ exitStatus = 1)

\* C11 witness: the run was aborted for a window whose local end reads later
\* than its local start while both denote the same instant (the hour the
\* clocks skip)
C11_Witness ==
    /\ entry = "main"
    /\ pc = "done"
    /\ result = "raised"
    /\ requests = <<>>
    /\ cfg.window_end_local > cfg.window_start_local
    /\ MadridToUtc(cfg.window_end_local) = MadridToUtc(cfg.window_start_local)

\* the record's slot-start value denotes an instant, in whichever encoding
HasInstant(m) == m.startTime.kind \in {"isoZ", "epoch_s", "epoch_ms"}

\* the page of GammaLimit(cfg) records that position i of the query is on
PageOf(i) == (i - 1) \div GammaLimit(cfg)

\* C13 as stated: two records of one fetched page whose slot-start values
\* denote the same instant, as ISO-8601 string, epoch seconds or epoch
\* milliseconds, are accepted or rejected alike by the window filter.
C13_SameInstantSameVerdict ==
    ListerReturned =>
        \A a, b \in DOMAIN db.specials :
            (/\ PageOf(a) = PageOf(b)
             /\ \E i \in DOMAIN requests :
                    /\ requests[i].kind = "ok"
                    /\ requests[i].offset = PageOf(a) * GammaLimit(cfg)
             /\ HasInstant(db.specials[a]) /\ HasInstant(db.specials[b])
             /\ db.specials[a].startTime.t = db.specials[b].startTime.t)
            => (db.specials[a] \in Range(out) <=> db.specials[b] \in Range(out))

\* the page size of the lister that is running
PageSize == IF entry = "main" THEN GammaLimit(cfg) ELSE RedeemLimit(cfg)

\* the number of records the listing API holds for the query
DbLen == IF entry = "main" THEN db.len ELSE Len(db)

\* the number of records on the page that request r was served
ServedBy(r) ==
    IF r.kind # "ok" \/ r.offset >= DbLen THEN 0
    ELSE Min(PageSize, DbLen - r.offset)

\* C15 as stated: a lister issues no further page request once a page was
\* empty, a page held fewer than pageSize records, or the records fetched so
\* far reached cfg.max_markets: every request but the last was served a full
\* page that left the count below the cap.
C15_StopsOnEmptyShortOrCap ==
    \A i \in DOMAIN requests :
        i < Len(requests) =>
            /\ ServedBy(requests[i]) = PageSize
            /\ requests[i].offset + ServedBy(requests[i]) < cfg.max_markets

\* C23 as stated: with AUTO_REDEEM enabled, main() has run the redemption
\* pass by the time trading discovery starts: its call of redeem_last_hours
\* got into the function and on to the listing query of the lookback window.
C23_RedeemPassRunsBeforeDiscovery ==
    (/\ entry = "main"
     /\ cfg.auto_redeem
     /\ pc \in {"m_list", "m_orders"} \/ (pc = "done" /\ requests # <<>>))
    => redeemCall = "entered"

\* C24 as stated: a market reported FAIL has no order posted by that
\* attempt, and a market reported OK in a live run has both its UP and its
\* DOWN order posted.
C24_BothOrdersOrNone ==
    entry = "main" =>
        \A j \in DOMAIN orders :
            /\ orders[j].status = "FAIL" => orders[j].posted = <<>>
            /\ (orders[j].status = "OK" /\ ~cfg.dry_run)
                  => orders[j].posted = <<"UP", "DOWN">>

\* C25: with DRY_RUN enabled no trading client is constructed and no order
\* is posted for any market; in either mode a market that is closed or not
\* accepting orders is reported FAIL with no client constructed and no order
\* posted.
C25_DryRunAndShutMarketsPostNothing ==
    entry = "main" =>
        \A j \in DOMAIN orders :
            /\ cfg.dry_run =>
                  (~orders[j].client /\ orders[j].posted = <<>>)
            /\ (out[orders[j].market].closed
                   \/ ~out[orders[j].market].acceptingOrders)
                  => /\ orders[j].status = "FAIL"
                     /\ ~orders[j].client
                     /\ orders[j].posted = <<>>

\* C25 witness: a dry run went over an open market, reported OK without a
\* client, and over a market that does not accept orders, reported FAIL
C25_Witness ==
    /\ entry = "main"
    /\ cfg.dry_run
    /\ pc = "done"
    /\ \E i, j \in DOMAIN orders :
         /\ orders[i].status = "OK"
         /\ ~orders[i].client
         /\ ~out[orders[j].market].acceptingOrders
         /\ orders[j].status = "FAIL"

====
